---- MODULE Spec2Model ----
(***************************************************************************)
(* Hybrid retrieval of RepoDocGen: VectorStore (src/rag/vector_store.py),  *)
(* HybridSearch (src/rag/hybrid_search.py) and QABot                       *)
(* (src/chatbot/qa_bot.py).                                                *)
(*                                                                         *)
(* Spec is the retriever over its store, SpecPersist the life of a saved   *)
(* index (build, save, reopen, load, search), SpecQA the question          *)
(* answering over a built index.                                           *)
(*                                                                         *)
(* Numbers.  Python floats are modelled in fixed point: a score s is the   *)
(* integer s * Unit.  alpha is held in tenths (alpha = 0.5 is 5).          *)
(* Texts are sequences of characters; str.split() is the operator Split.   *)
(* The embedding collaborator (Voyage AI) is a deterministic fake that     *)
(* maps a text to a vector of character counts, and may fail.              *)
(* The FAISS IndexFlatL2 is the sequence of the vectors added; slot i is   *)
(* position i + 1 of the sequence.                                         *)
(* Python dicts are sequences of <<key, value>> pairs in insertion order.  *)
(***************************************************************************)
EXTENDS Integers, Sequences, FiniteSets, TLC

\* ------------------------------------------------------------------ bounds

\* chunk ids are 1..NumIds
NumIds == 3
\* longest batch handed to add_documents / index_documents
MaxBatch == 3
\* most vectors ever added to one store during its life
MaxTotal == 3
\* largest top_k asked of a search
MaxTopK == 2
\* most entries QABot.history grows to
MaxHistory == 2

\* one unit of score: 1.0 is Unit
Unit == 10 * 1000

\* Config.HYBRID_SEARCH_ALPHA default, in tenths
HYBRID_SEARCH_ALPHA == 5

Ids == 1..NumIds
TopKs == 1..MaxTopK

\* document contents: "", "a", "a b"; queries: "", "a"
Texts == { <<>>, <<"a">>, <<"a", " ", "b">> }
Queries == { <<>>, <<"a">> }

\* alpha arguments tried on set_alpha and on the constructor (tenths)
AlphaArgs == { -1, 0, 5, 10, 15 }
CtorAlphaArgs == { 0, 10, 15 }

Docs == [id : Ids, content : Texts]

\* the batches of n documents
Batches(n) == [1..n -> Docs]

VARIABLES
    alpha,        \* HybridSearch.alpha, in tenths
    bm25,         \* HybridSearch.bm25: [built, corpus]; built = FALSE is None
    doc_ids,      \* HybridSearch.doc_ids
    documents,    \* VectorStore.documents: dict id -> Document
    id_to_idx,    \* VectorStore.id_to_idx: dict id -> slot
    index,        \* VectorStore.index: the vectors of the FAISS index
    inserted,     \* history: vectors added to a store so far (in Spec, during
                  \* the life of the one store)
    indexed_only, \* history: the store was changed by completed
                  \* index_documents calls only
    ret,          \* the last call: its arguments and its outcome
    disk,         \* the two artifacts under the path save and load use
    lifecycle,    \* history: "fresh" after construction, "restored" after a
                  \* load into the fresh store, "used" after any other change
    history       \* QABot.history

vars == << alpha, bm25, doc_ids, documents, id_to_idx, index, inserted,
           indexed_only, ret, disk, lifecycle, history >>

\* ------------------------------------------------------------------ dicts

RECURSIVE DictPos(_, _, _)
DictPos(d, k, i) ==
    IF i > Len(d) THEN 0
    ELSE IF d[i][1] = k THEN i
    ELSE DictPos(d, k, i + 1)

DictHas(d, k) == DictPos(d, k, 1) # 0

DictGet(d, k) == d[DictPos(d, k, 1)][2]

\* d[k] = v: an existing key keeps its place, a new key goes last
DictSet(d, k, v) ==
    LET p == DictPos(d, k, 1)
    IN  IF p = 0 THEN Append(d, <<k, v>>)
        ELSE [d EXCEPT ![p] = <<k, v>>]

DictKeys(d) == { d[i][1] : i \in 1..Len(d) }

\* ------------------------------------------------------------------ text

\* str.split(): the maximal runs of non-blank characters
RECURSIVE SplitFrom(_, _, _, _)
SplitFrom(s, i, cur, acc) ==
    IF i > Len(s)
    THEN IF cur = <<>> THEN acc ELSE Append(acc, cur)
    ELSE IF s[i] = " "
         THEN SplitFrom(s, i + 1, <<>>, IF cur = <<>> THEN acc ELSE Append(acc, cur))
         ELSE SplitFrom(s, i + 1, Append(cur, s[i]), acc)

Split(s) == SplitFrom(s, 1, <<>>, <<>>)

Count(s, c) == Cardinality({ i \in 1..Len(s) : s[i] = c })

\* voyage_client.embed, one text: the fake collaborator's vector
Embed(text) == << Count(text, "a"), Count(text, "b") >>

\* squared Euclidean distance, as IndexFlatL2 reports it
L2sqr(u, v) == (u[1] - v[1]) * (u[1] - v[1]) + (u[2] - v[2]) * (u[2] - v[2])

\* ------------------------------------------------------------------ BM25

\* ln(k) * Unit for the odd k = 1, 3, .. 13, which are the only arguments
\* BM25Okapi's idf takes on a corpus of at most six documents
LnTable == << 0, 10986, 16094, 19459, 21972, 23979, 25649 >>

LnOdd(k) == LnTable[(k + 1) \div 2]

RECURSIVE SumSeq(_)
SumSeq(s) == IF s = <<>> THEN 0 ELSE Head(s) + SumSeq(Tail(s))

RECURSIVE SumOver(_, _)
SumOver(S, f) ==
    IF S = {} THEN 0
    ELSE LET x == CHOOSE y \in S : TRUE
         IN  f[x] + SumOver(S \ {x}, f)

\* tokenized_docs = [doc.content.split() for doc in documents]
Tokenize(docs) == [i \in 1..Len(docs) |-> Split(docs[i].content)]

\* frequencies[word] of one tokenized document
Freq(tokens, w) == Cardinality({ i \in 1..Len(tokens) : tokens[i] = w })

CorpusWords(corpus) == UNION { { corpus[i][j] : j \in 1..Len(corpus[i]) } : i \in 1..Len(corpus) }

\* nd[word]: the number of documents that hold the word
Nd(corpus, w) == Cardinality({ i \in 1..Len(corpus) : Freq(corpus[i], w) > 0 })

\* num_doc: the total number of tokens of the corpus
CorpusTokens(corpus) == SumSeq([i \in 1..Len(corpus) |-> Len(corpus[i])])

\* BM25Okapi(tokenized_docs) raises ZeroDivisionError on an empty corpus
\* (avgdl = num_doc / corpus_size) and on a corpus without any token
\* (average_idf = idf_sum / len(idf))
BM25Raises(corpus) == Len(corpus) = 0 \/ CorpusWords(corpus) = {}

\* idf = log(corpus_size - freq + 0.5) - log(freq + 0.5)
RawIdf(corpus, w) ==
    LET N == Len(corpus)
        n == Nd(corpus, w)
    IN  LnOdd(2 * (N - n) + 1) - LnOdd(2 * n + 1)

AverageIdf(corpus) ==
    LET W == CorpusWords(corpus)
    IN  SumOver(W, [w \in W |-> RawIdf(corpus, w)]) \div Cardinality(W)

\* self.idf after _calc_idf: a negative idf is replaced by
\* epsilon * average_idf, epsilon = 0.25
IdfWith(corpus, eps) ==
    [w \in CorpusWords(corpus) |->
        IF RawIdf(corpus, w) < 0 THEN eps ELSE RawIdf(corpus, w)]

IdfTable(corpus) == IdfWith(corpus, AverageIdf(corpus) \div 4)

\* one summand of get_scores, with k1 = 1.5 and b = 0.75:
\*   idf * f * (k1 + 1) / (f + k1 * (1 - b + b * doc_len / avgdl))
\* numerator and denominator multiplied by 8 * num_doc (T); idf.get(q) or 0
TermScore(corpus, idf, T, i, q) ==
    LET f  == Freq(corpus[i], q)
        dl == Len(corpus[i])
    IN  IF q \notin DOMAIN idf THEN 0
        ELSE (idf[q] * 20 * f * T) \div (8 * f * T + 3 * T + 9 * dl * Len(corpus))

\* bm25.get_scores(tokenized_query): one raw score per document of the corpus
ScoresWith(corpus, idf, T, query) ==
    [i \in 1..Len(corpus) |->
        SumSeq([j \in 1..Len(query) |-> TermScore(corpus, idf, T, i, query[j])])]

GetScores(corpus, query) ==
    ScoresWith(corpus, IdfTable(corpus), CorpusTokens(corpus), query)

RECURSIVE MaxSeq(_)
MaxSeq(s) ==
    IF Len(s) = 1 THEN s[1]
    ELSE LET m == MaxSeq(Tail(s)) IN IF s[1] >= m THEN s[1] ELSE m

\* bm25_scores / bm25_scores.max() when the maximum is positive
DivideBy(scores, m) ==
    IF m > 0
    THEN [i \in 1..Len(scores) |-> (scores[i] * Unit) \div m]
    ELSE scores

Normalize(scores) == DivideBy(scores, MaxSeq(scores))

\* ------------------------------------------------------------------ calls

\* what a call leaves behind for its caller; a call fills the fields it has
Returned(op, raised) ==
    [op |-> op, raised |-> raised, arg |-> 0, query |-> <<>>, top_k |-> 0,
     path |-> "", result |-> <<>>, lexical |-> <<>>, semantic |-> <<>>,
     combined |-> <<>>, embed_calls |-> <<>>,
     answer |-> <<>>, sources |-> <<>>, confidence |-> 0,
     generation |-> "", gen_calls |-> 0, remembered |-> FALSE]

\* ------------------------------------------------------------------ VectorStore

\* result.embeddings of voyage_client.embed(texts, input_type="document")
EmbedBatch(docs) == [i \in 1..Len(docs) |-> Embed(docs[i].content)]

\* a loop that leaves the slot of an id already recorded as it is
RECURSIVE StoreLoopKeepingSlot(_, _, _, _, _)
StoreLoopKeepingSlot(docs, embeddings, i, start_idx, acc) ==
    IF i > Len(docs) THEN acc
    ELSE LET doc == [id |-> docs[i].id, content |-> docs[i].content,
                     embedding |-> embeddings[i]]
         IN  StoreLoopKeepingSlot(docs, embeddings, i + 1, start_idx,
                 [documents |-> DictSet(acc.documents, doc.id, doc),
                  id_to_idx |-> IF DictHas(acc.id_to_idx, doc.id)
                                THEN acc.id_to_idx
                                ELSE DictSet(acc.id_to_idx, doc.id, start_idx + (i - 1))])

\* the loop of add_documents: doc.embedding = ..; documents[doc.id] = doc;
\* id_to_idx[doc.id] = start_idx + i
RECURSIVE StoreLoop(_, _, _, _, _)
StoreLoop(docs, embeddings, i, start_idx, acc) ==
    IF i > Len(docs) THEN acc
    ELSE LET doc == [id |-> docs[i].id, content |-> docs[i].content,
                     embedding |-> embeddings[i]]
         IN  StoreLoop(docs, embeddings, i + 1, start_idx,
                 [documents |-> DictSet(acc.documents, doc.id, doc),
                  id_to_idx |-> DictSet(acc.id_to_idx, doc.id, start_idx + (i - 1))])

\* calls to the collaborator made one chunk at a time
EmbedCallsPerChunk(docs) ==
    [i \in 1..Len(docs) |-> [input_type |-> "document", texts |-> << docs[i].content >>]]

\* texts = [doc.content for doc in documents]; voyage_client.embed(texts,
\* input_type="document"): the calls add_documents makes to the collaborator
EmbedCalls(docs) ==
    << [input_type |-> "document", texts |-> [i \in 1..Len(docs) |-> docs[i].content]] >>

\* VectorStore.add_documents: the store after the call, whether it raised, and
\* the calls it made to the embedding collaborator.
\* ok is the embedding collaborator's answer to the one batch call.
AddDocuments(docs, ok) ==
    IF Len(docs) = 0
    THEN [raised |-> FALSE, documents |-> documents, id_to_idx |-> id_to_idx, index |-> index,
          embed_calls |-> <<>>]
    ELSE IF ~ok
    THEN [raised |-> TRUE, documents |-> documents, id_to_idx |-> id_to_idx, index |-> index,
          embed_calls |-> EmbedCalls(docs)]
    ELSE LET embeddings == EmbedBatch(docs)
             start_idx == Len(index)
             looped == StoreLoop(docs, embeddings, 1, start_idx,
                           [documents |-> documents, id_to_idx |-> id_to_idx])
         IN  [raised |-> FALSE, documents |-> looped.documents,
              id_to_idx |-> looped.id_to_idx, index |-> index \o embeddings,
              embed_calls |-> EmbedCalls(docs)]

\* index.search of IndexFlatL2: the k nearest slots, nearest first, equal
\* distances by slot; padded with slot -1 when the index holds fewer than k
RECURSIVE FaissSearch(_, _, _)
FaissSearch(q, k, chosen) ==
    IF k = 0 THEN <<>>
    ELSE LET cand == (0..(Len(index) - 1)) \ chosen
             d(s) == L2sqr(index[s + 1], q)
         IN  IF cand = {}
             THEN << [dist |-> -1, idx |-> -1] >> \o FaissSearch(q, k - 1, chosen)
             ELSE LET best == CHOOSE s \in cand :
                                \A t \in cand : d(s) < d(t) \/ (d(s) = d(t) /\ s <= t)
                  IN  << [dist |-> d(best), idx |-> best] >>
                          \o FaissSearch(q, k - 1, chosen \cup {best})

\* idx_to_id = {v: k for k, v in self.id_to_idx.items()}: the last key wins
RECURSIVE IdxToId(_, _)
IdxToId(i, acc) ==
    IF i > Len(id_to_idx) THEN acc
    ELSE IdxToId(i + 1, DictSet(acc, id_to_idx[i][2], id_to_idx[i][1]))

\* similarity = 1 / (1 + dist)
Similarity(dist) == Unit \div (1 + dist)

\* the loop over zip(distances[0], indices[0]) of VectorStore.search
RECURSIVE GatherLoop(_, _, _, _)
GatherLoop(found, idx_to_id, i, acc) ==
    IF i > Len(found) THEN acc
    ELSE LET idx == found[i].idx
         IN  IF idx # -1 /\ DictHas(idx_to_id, idx)
             THEN GatherLoop(found, idx_to_id, i + 1,
                      Append(acc, [doc |-> DictGet(documents, DictGet(idx_to_id, idx)),
                                   score |-> Similarity(found[i].dist)]))
             ELSE GatherLoop(found, idx_to_id, i + 1, acc)

\* VectorStore.search: ok is the collaborator's answer to the query call
VSSearch(query, top_k, ok) ==
    IF Len(index) = 0 THEN [raised |-> FALSE, result |-> <<>>]
    ELSE IF ~ok THEN [raised |-> TRUE, result |-> <<>>]
    ELSE [raised |-> FALSE,
          result |-> GatherLoop(FaissSearch(Embed(query), top_k, {}),
                                IdxToId(1, <<>>), 1, <<>>)]

\* VectorStore.get_document(doc_id) is not None
HasDocument(doc_id) == DictHas(documents, doc_id)

GetDocument(doc_id) == DictGet(documents, doc_id)

\* ------------------------------------------------------------------ HybridSearch

\* for doc_id, score in zip(self.doc_ids, bm25_scores_norm):
\*     combined_scores[doc_id] = (1 - self.alpha) * score
RECURSIVE BlendLexical(_, _, _)
BlendLexical(scores, i, acc) ==
    IF i > Len(doc_ids) \/ i > Len(scores) THEN acc
    ELSE BlendLexical(scores, i + 1,
             DictSet(acc, doc_ids[i], ((10 - alpha) * scores[i]) \div 10))

\* a blend that leaves out the chunks the lexical side does not know
RECURSIVE BlendSemanticKnownOnly(_, _, _)
BlendSemanticKnownOnly(results, i, acc) ==
    IF i > Len(results) THEN acc
    ELSE LET id == results[i].doc.id
             part == (alpha * results[i].score) \div 10
         IN  BlendSemanticKnownOnly(results, i + 1,
                 IF DictHas(acc, id)
                 THEN DictSet(acc, id, DictGet(acc, id) + part)
                 ELSE acc)

\* for doc, score in semantic_results: add alpha * score, or set it
RECURSIVE BlendSemantic(_, _, _)
BlendSemantic(results, i, acc) ==
    IF i > Len(results) THEN acc
    ELSE LET id == results[i].doc.id
             part == (alpha * results[i].score) \div 10
         IN  BlendSemantic(results, i + 1,
                 IF DictHas(acc, id)
                 THEN DictSet(acc, id, DictGet(acc, id) + part)
                 ELSE DictSet(acc, id, part))

\* a sort that was left out: the items in dict order
SortedAsInserted(items) == items

\* sorted(items, key=score, reverse=True): stable, equal scores keep dict order
RECURSIVE SortedDesc(_)
SortedDesc(items) ==
    IF items = <<>> THEN <<>>
    ELSE LET p == CHOOSE i \in 1..Len(items) :
                    /\ \A j \in 1..Len(items) : items[j][2] <= items[i][2]
                    /\ \A j \in 1..(i - 1) : items[j][2] < items[i][2]
             rest == [j \in 1..(Len(items) - 1) |-> IF j < p THEN items[j] ELSE items[j + 1]]
         IN  << items[p] >> \o SortedDesc(rest)

\* items[:top_k]
Take(items, k) == SubSeq(items, 1, IF k < Len(items) THEN k ELSE Len(items))

\* a loop that returns a chunk for every sorted id, held by the store or not
RECURSIVE ResolveLoopKeepingAll(_, _, _)
ResolveLoopKeepingAll(sorted_ids, i, acc) ==
    IF i > Len(sorted_ids) THEN acc
    ELSE ResolveLoopKeepingAll(sorted_ids, i + 1,
             Append(acc, [doc |-> IF HasDocument(sorted_ids[i][1])
                                  THEN GetDocument(sorted_ids[i][1])
                                  ELSE [id |-> sorted_ids[i][1], content |-> <<>>,
                                        embedding |-> << 0, 0 >>],
                          score |-> sorted_ids[i][2]]))

\* the loop that resolves the sorted ids through get_document
RECURSIVE ResolveLoop(_, _, _)
ResolveLoop(sorted_ids, i, acc) ==
    IF i > Len(sorted_ids) THEN acc
    ELSE IF HasDocument(sorted_ids[i][1])
         THEN ResolveLoop(sorted_ids, i + 1,
                  Append(acc, [doc |-> GetDocument(sorted_ids[i][1]),
                               score |-> sorted_ids[i][2]]))
         ELSE ResolveLoop(sorted_ids, i + 1, acc)

\* the tail of HybridSearch.search, from the blend on
Blend(query, top_k, bm25_scores_norm, semantic_results) ==
    LET combined_scores ==
            BlendSemantic(semantic_results, 1, BlendLexical(bm25_scores_norm, 1, <<>>))
    IN  [Returned("search", FALSE) EXCEPT
            !.query = query, !.top_k = top_k, !.path = "hybrid",
            !.result = ResolveLoop(Take(SortedDesc(combined_scores), top_k), 1, <<>>),
            !.lexical = bm25_scores_norm, !.semantic = semantic_results,
            !.combined = combined_scores]

\* a fallback that gives up instead of searching the store
FallbackEmpty(query, top_k, r) ==
    IF r.raised THEN Returned("search", TRUE)
    ELSE [Returned("search", FALSE) EXCEPT
             !.query = query, !.top_k = top_k, !.path = "semantic"]

\* the semantic-only fallback of HybridSearch.search
Fallback(query, top_k, r) ==
    IF r.raised THEN Returned("search", TRUE)
    ELSE [Returned("search", FALSE) EXCEPT
             !.query = query, !.top_k = top_k, !.path = "semantic", !.result = r.result]

\* the hybrid path once the semantic candidates are in
Hybrid(query, top_k, sem) ==
    IF sem.raised THEN Returned("search", TRUE)
    ELSE Blend(query, top_k, Normalize(GetScores(bm25.corpus, Split(query))), sem.result)

\* HybridSearch.search: the outcome with what it computed on the way
HSearch(query, top_k, ok) ==
    IF ~bm25.built
    THEN Fallback(query, top_k, VSSearch(query, top_k, ok))
    ELSE Hybrid(query, top_k, VSSearch(query, top_k * 2, ok))

\* a check of the upper end only
AlphaRejectedAbove(a) == a > 10

\* set_alpha's check: not 0 <= alpha <= 1
AlphaRejected(a) == ~(0 <= a /\ a <= 10)

\* nothing saved under the path yet
NoFiles ==
    [faiss |-> [present |-> FALSE, index |-> <<>>],
     pkl |-> [present |-> FALSE, documents |-> <<>>, id_to_idx |-> <<>>],
     whole |-> FALSE, rankings |-> <<>>]

\* what a call that may change the store or the Lexical Index does to lifecycle
Touched ==
    IF << documents, id_to_idx, index, bm25, doc_ids >>'
           = << documents, id_to_idx, index, bm25, doc_ids >>
    THEN lifecycle ELSE "used"

\* VectorStore() and HybridSearch(vector_store, alpha): alpha is the argument,
\* or Config.HYBRID_SEARCH_ALPHA when it is None
Init ==
    /\ alpha \in CtorAlphaArgs \cup {HYBRID_SEARCH_ALPHA}
    /\ bm25 = [built |-> FALSE, corpus |-> <<>>]
    /\ doc_ids = <<>>
    /\ documents = <<>>
    /\ id_to_idx = <<>>
    /\ index = <<>>
    /\ inserted = 0
    /\ indexed_only = TRUE
    /\ ret = Returned("init", FALSE)
    /\ disk = NoFiles
    /\ lifecycle = "fresh"
    /\ history = <<>>

\* the batch lengths that fit the store's lifetime bound
BatchLens ==
    0..(IF MaxTotal - inserted < MaxBatch THEN MaxTotal - inserted ELSE MaxBatch)

\* Chunk ids are opaque keys (the code only compares them), so the n-th chunk
\* a store is ever given carries one of the ids 1..n: every other run is a
\* renaming of one of these.
Admissible(docs) ==
    \A i \in 1..Len(docs) : docs[i].id <= inserted + i

\* HybridSearch.set_alpha(a)
SetAlpha(a) ==
    /\ IF AlphaRejected(a)
       THEN /\ alpha' = alpha
            /\ ret' = [Returned("set_alpha", TRUE) EXCEPT !.arg = a]
       ELSE /\ alpha' = a
            /\ ret' = [Returned("set_alpha", FALSE) EXCEPT !.arg = a]
    /\ UNCHANGED << bm25, doc_ids, documents, id_to_idx, index, inserted, indexed_only,
                    disk, lifecycle, history >>

\* VectorStore.add_documents(docs), called on the store directly
AddDocumentsCall(docs, ok) ==
    /\ Admissible(docs)
    /\ LET r == AddDocuments(docs, ok)
       IN  /\ documents' = r.documents
           /\ id_to_idx' = r.id_to_idx
           /\ index' = r.index
           /\ inserted' = inserted + (Len(r.index) - Len(index))
           /\ indexed_only' = (indexed_only /\ r.index = index)
           /\ ret' = [Returned("add_documents", r.raised) EXCEPT
                         !.arg = Len(docs), !.embed_calls = r.embed_calls]
    /\ UNCHANGED << alpha, bm25, doc_ids, disk, history >>
    /\ lifecycle' = Touched

\* HybridSearch.index_documents(docs)
IndexDocuments(docs, ok) ==
    /\ Admissible(docs)
    /\ LET r == AddDocuments(docs, ok)
           tokenized_docs == Tokenize(docs)
       IN  /\ documents' = r.documents
           /\ id_to_idx' = r.id_to_idx
           /\ index' = r.index
           /\ inserted' = inserted + (Len(r.index) - Len(index))
           /\ IF r.raised \/ BM25Raises(tokenized_docs)
              THEN /\ UNCHANGED << bm25, doc_ids >>
                   /\ indexed_only' = (indexed_only /\ r.index = index)
                   /\ ret' = [Returned("index_documents", TRUE) EXCEPT
                                 !.arg = Len(docs), !.embed_calls = r.embed_calls]
              ELSE /\ bm25' = [built |-> TRUE, corpus |-> tokenized_docs]
                   /\ doc_ids' = [i \in 1..Len(docs) |-> docs[i].id]
                   /\ UNCHANGED indexed_only
                   /\ ret' = [Returned("index_documents", FALSE) EXCEPT
                                 !.arg = Len(docs), !.embed_calls = r.embed_calls]
    /\ lifecycle' = Touched
    /\ UNCHANGED << alpha, disk, history >>

\* a search that sorts self.doc_ids in place
SearchSortingIds(query, top_k, ok) ==
    /\ ret' = HSearch(query, top_k, ok)
    /\ doc_ids' = LET byId == SortedDesc([i \in 1..Len(doc_ids) |-> << doc_ids[i], doc_ids[i] >>])
                  IN  [i \in 1..Len(doc_ids) |-> byId[i][1]]
    /\ UNCHANGED << alpha, bm25, documents, id_to_idx, index, inserted, indexed_only,
                    disk, lifecycle, history >>

\* HybridSearch.search(query, top_k)
Search(query, top_k, ok) ==
    /\ ret' = HSearch(query, top_k, ok)
    /\ UNCHANGED << alpha, bm25, doc_ids, documents, id_to_idx, index, inserted,
                    indexed_only, disk, lifecycle, history >>

\* VectorStore.clear()
Clear ==
    /\ index' = <<>>
    /\ documents' = <<>>
    /\ id_to_idx' = <<>>
    /\ indexed_only' = (indexed_only /\ index = <<>>)
    /\ ret' = Returned("clear", FALSE)
    /\ UNCHANGED << alpha, bm25, doc_ids, inserted, disk, history >>
    /\ lifecycle' = Touched

\* history: what every search would return now, taken when a save completes
Rankings == [q \in Queries, k \in TopKs |-> HSearch(q, k, TRUE).result]

\* how a save can end: both files written, write_index failing, or the
\* pickle dump failing after documents.pkl was opened for writing
SaveOutcomes == { "saved", "index_fails", "dump_fails" }

\* VectorStore.save(path), on a path that holds no faiss.index yet
Save(outcome) ==
    /\ ~disk.faiss.present
    /\ IF outcome = "index_fails"
       THEN /\ UNCHANGED disk
            /\ ret' = Returned("save", TRUE)
       ELSE IF outcome = "dump_fails"
       THEN /\ disk' = [disk EXCEPT !.faiss = [present |-> TRUE, index |-> index],
                                    !.pkl = NoFiles.pkl]
            /\ ret' = Returned("save", TRUE)
       ELSE /\ disk' = [faiss |-> [present |-> TRUE, index |-> index],
                        pkl |-> [present |-> TRUE, documents |-> documents,
                                 id_to_idx |-> id_to_idx],
                        whole |-> TRUE, rankings |-> Rankings]
            /\ ret' = Returned("save", FALSE)
    /\ UNCHANGED << alpha, bm25, doc_ids, documents, id_to_idx, index, inserted,
                    indexed_only, lifecycle, history >>

\* a load that adds what it reads to what the store holds
RECURSIVE Merged(_, _, _)
Merged(d, i, acc) ==
    IF i > Len(d) THEN acc ELSE Merged(d, i + 1, DictSet(acc, d[i][1], d[i][2]))

LoadAdditive ==
    /\ disk.faiss.present /\ disk.pkl.present
    /\ index' = index \o disk.faiss.index
    /\ documents' = Merged(disk.pkl.documents, 1, documents)
    /\ id_to_idx' = Merged(disk.pkl.id_to_idx, 1, id_to_idx)
    /\ ret' = Returned("load", FALSE)
    /\ indexed_only' = FALSE
    /\ lifecycle' = "used"
    /\ UNCHANGED << alpha, bm25, doc_ids, inserted, disk, history >>

\* VectorStore.load(path): self.index is assigned as soon as faiss.index is
\* read, documents and id_to_idx once documents.pkl is unpickled
Load ==
    /\ IF ~disk.faiss.present
       THEN /\ UNCHANGED << index, documents, id_to_idx >>
            /\ ret' = Returned("load", TRUE)
       ELSE /\ index' = disk.faiss.index
            /\ IF ~disk.pkl.present
               THEN /\ UNCHANGED << documents, id_to_idx >>
                    /\ ret' = Returned("load", TRUE)
               ELSE /\ documents' = disk.pkl.documents
                    /\ id_to_idx' = disk.pkl.id_to_idx
                    /\ ret' = Returned("load", FALSE)
    /\ indexed_only' = (indexed_only /\ index' = index /\ documents' = documents)
    /\ lifecycle' = IF lifecycle = "fresh" /\ disk.whole /\ ~ret'.raised
                    THEN "restored"
                    ELSE IF ret'.raised /\ index' = index THEN lifecycle ELSE "used"
    /\ UNCHANGED << alpha, bm25, doc_ids, inserted, disk, history >>

\* a new process on the same configuration: VectorStore(), then
\* HybridSearch(vector_store) on top of it
Reopen ==
    /\ lifecycle # "fresh"
    /\ bm25' = [built |-> FALSE, corpus |-> <<>>]
    /\ doc_ids' = <<>>
    /\ documents' = <<>>
    /\ id_to_idx' = <<>>
    /\ index' = <<>>
    /\ indexed_only' = TRUE
    /\ lifecycle' = "fresh"
    /\ ret' = Returned("init", FALSE)
    /\ UNCHANGED << alpha, inserted, disk, history >>

Next ==
    \/ \E a \in AlphaArgs : SetAlpha(a)
    \/ \E n \in BatchLens : \E docs \in Batches(n), ok \in BOOLEAN : AddDocumentsCall(docs, ok)
    \/ \E n \in BatchLens : \E docs \in Batches(n), ok \in BOOLEAN : IndexDocuments(docs, ok)
    \/ \E q \in Queries, k \in TopKs, ok \in BOOLEAN : Search(q, k, ok)
    \/ Clear

Spec == Init /\ [][Next]_vars

\* ------------------------------------------------------------------ QABot

\* how the one call to client.chat.completions.create can end
GenFailures == { "timeout", "auth", "quota" }
GenOutcomes == { "answered" } \cup GenFailures

\* the answer returned without retrieved chunks
Canned == << "I don't have enough information to answer this question." >>

\* response.choices[0].message.content of the fake collaborator
Generated(question) == << "answer to ", question >>

\* f"Error: {str(e)}"
ErrorAnswer(e) == << "Error: ", e >>

\* sources that list the top-ranked chunk only
FormatSourcesTopOnly(results) ==
    [i \in 1..(IF results = <<>> THEN 0 ELSE 1) |->
        [relevance |-> results[i].score, preview |-> results[i].doc.content]]

\* _format_sources(results): one entry per retrieved chunk
FormatSources(results) ==
    [i \in 1..Len(results) |->
        [relevance |-> results[i].score, preview |-> results[i].doc.content]]

\* an answer that asks the collaborator even without retrieved chunks
AnswerWithoutContext(question, results, gen) ==
    IF gen = "answered"
    THEN [answer |-> Generated(question), sources |-> FormatSources(results),
          confidence |-> IF results # <<>> THEN results[1].score ELSE 0,
          generation |-> gen, gen_calls |-> 1, remembered |-> TRUE]
    ELSE [answer |-> ErrorAnswer(gen), sources |-> <<>>, confidence |-> 0,
          generation |-> gen, gen_calls |-> 1, remembered |-> FALSE]

\* an answer that asks the collaborator once more after a failure
AnswerRetrying(question, results, gen) ==
    IF results = <<>>
    THEN [answer |-> Canned, sources |-> <<>>, confidence |-> 0,
          generation |-> "", gen_calls |-> 0, remembered |-> FALSE]
    ELSE IF gen = "answered"
    THEN [answer |-> Generated(question), sources |-> FormatSources(results),
          confidence |-> results[1].score,
          generation |-> gen, gen_calls |-> 1, remembered |-> TRUE]
    ELSE [answer |-> ErrorAnswer(gen), sources |-> <<>>, confidence |-> 0,
          generation |-> gen, gen_calls |-> 2, remembered |-> FALSE]

\* QABot.query from the retrieved results on: the dict returned, the calls made
\* to the text-generation collaborator, and whether history was appended to
Answer(question, results, gen) ==
    IF results = <<>>
    THEN [answer |-> Canned, sources |-> <<>>, confidence |-> 0,
          generation |-> "", gen_calls |-> 0, remembered |-> FALSE]
    ELSE IF gen = "answered"
    THEN [answer |-> Generated(question), sources |-> FormatSources(results),
          confidence |-> results[1].score,
          generation |-> gen, gen_calls |-> 1, remembered |-> TRUE]
    ELSE [answer |-> ErrorAnswer(gen), sources |-> <<>>, confidence |-> 0,
          generation |-> gen, gen_calls |-> 1, remembered |-> FALSE]

\* what QABot.query returns to its caller, given what the retrieval gave (r)
\* and what the rest of the call did (a)
Answered(question, top_k, results, a) ==
    [Returned("query", FALSE) EXCEPT
        !.query = question, !.top_k = top_k, !.result = results,
        !.answer = a.answer, !.sources = a.sources, !.confidence = a.confidence,
        !.generation = a.generation, !.gen_calls = a.gen_calls,
        !.remembered = a.remembered]

\* an exception of hybrid_search.search leaves query as it is
QueryReturn(question, top_k, r, gen) ==
    IF r.raised
    THEN [Returned("query", TRUE) EXCEPT !.query = question, !.top_k = top_k]
    ELSE Answered(question, top_k, r.result, Answer(question, r.result, gen))

\* a history that keeps the newest entry first
RememberNewestFirst(r) ==
    IF r.remembered
    THEN << [question |-> r.query, answer |-> r.answer] >> \o history
    ELSE history

\* self.history.append({"question": question, "answer": answer})
Remember(r) ==
    IF r.remembered
    THEN Append(history, [question |-> r.query, answer |-> r.answer])
    ELSE history

\* QABot.query once the retrieval has returned or raised (r)
QueryOn(question, top_k, r) ==
    \E gen \in GenOutcomes :
        /\ ret' = QueryReturn(question, top_k, r, gen)
        /\ history' = Remember(ret')

\* QABot.query(question, top_k): ok is the embedding collaborator's answer
\* to the retrieval; the text-generation collaborator's is drawn in QueryOn
Query(question, top_k, ok) ==
    /\ Len(history) < MaxHistory
    /\ QueryOn(question, top_k, HSearch(question, top_k, ok))
    /\ UNCHANGED << alpha, bm25, doc_ids, documents, id_to_idx, index, inserted,
                    indexed_only, disk, lifecycle >>

\* QABot.clear_history()
ClearHistory ==
    /\ history' = <<>>
    /\ ret' = Returned("clear_history", FALSE)
    /\ UNCHANGED << alpha, bm25, doc_ids, documents, id_to_idx, index, inserted,
                    indexed_only, disk, lifecycle >>

\* QABot(hybrid_search) over an index built by index_documents
NextQA ==
    \/ \E n \in BatchLens : \E docs \in Batches(n), ok \in BOOLEAN : IndexDocuments(docs, ok)
    \/ \E q \in Queries, k \in TopKs, ok \in BOOLEAN : Query(q, k, ok)
    \/ ClearHistory

\* build, save, reopen, load and search: the life of a persisted index
NextPersist ==
    \/ \E n \in BatchLens : \E docs \in Batches(n), ok \in BOOLEAN : IndexDocuments(docs, ok)
    \/ \E q \in Queries, k \in TopKs, ok \in BOOLEAN : Search(q, k, ok)
    \/ \E outcome \in SaveOutcomes : Save(outcome)
    \/ Load
    \/ Reopen

\* HybridSearch(vector_store), as main.py constructs it: alpha is the default
InitDefault == Init /\ alpha = HYBRID_SEARCH_ALPHA

SpecPersist == InitDefault /\ [][NextPersist]_vars

SpecQA == InitDefault /\ [][NextQA]_vars

\* ------------------------------------------------------------------ scenario

\* the two chunks of the cat-and-dogs corpus; here a text is written word by
\* word, each word standing for its run of non-blank characters
CatChunk ==
    [id |-> 1, content |-> << "the", " ", "cat", " ", "sat", " ", "on", " ", "the", " ", "mat" >>]
DogChunk ==
    [id |-> 2, content |-> << "dogs", " ", "bark", " ", "loudly", " ", "at", " ", "night" >>]

ScenarioDocs == { CatChunk, DogChunk }
ScenarioQueries == { << "cat", " ", "mat" >>, << "dogs" >> }

\* the retriever over batches of the two chunks, in any order
NextScenario ==
    \/ \E a \in AlphaArgs : SetAlpha(a)
    \/ \E n \in BatchLens : \E docs \in [1..n -> ScenarioDocs], ok \in BOOLEAN :
           IndexDocuments(docs, ok)
    \/ \E q \in ScenarioQueries, k \in TopKs, ok \in BOOLEAN : Search(q, k, ok)

SpecScenario == Init /\ [][NextScenario]_vars

\* ------------------------------------------------------------------ claims

\* the chunk ids each structure covers
StoreIds == DictKeys(documents)
LexIds == IF bm25.built THEN { doc_ids[i] : i \in 1..Len(doc_ids) } ELSE {}
EmbedIds ==
    { id_to_idx[i][1] : i \in { j \in 1..Len(id_to_idx) : id_to_idx[j][2] < Len(index) } }
LexSize == IF bm25.built THEN Len(bm25.corpus) ELSE 0

\* every vector ever added came with an id of its own
DisjointIds == Len(index) = Cardinality(StoreIds)

\* the last search returned
Searched == ret.op = "search" /\ ~ret.raised
OnHybridPath == Searched /\ ret.path = "hybrid"

ResultIds(r) == [i \in 1..Len(r) |-> r[i].doc.id]
ResultIdSet(r) == { r[i].doc.id : i \in 1..Len(r) }

\* the normalized lexical score the last search gave a chunk id, 0 without one
LexOf(id) ==
    IF id \in LexIds
    THEN ret.lexical[CHOOSE i \in 1..Len(doc_ids) :
                        doc_ids[i] = id /\ \A j \in (i + 1)..Len(doc_ids) : doc_ids[j] # id]
    ELSE 0

\* the semantic score the last search gave a chunk id, 0 when it was no candidate
SemOf(id) ==
    IF id \in ResultIdSet(ret.semantic)
    THEN ret.semantic[CHOOSE i \in 1..Len(ret.semantic) : ret.semantic[i].doc.id = id].score
    ELSE 0

\* x entered the Document Store before y
Before(x, y) == DictPos(documents, x, 1) < DictPos(documents, y, 1)

\* C1: after completed index_documents calls with pairwise disjoint chunk ids,
\* the Lexical Index, the Embedding Index and the Document Store cover the
\* same chunk ids and hold the same number of chunks.
C1_SameCorpus ==
    (indexed_only /\ DisjointIds) =>
        /\ LexIds = StoreIds
        /\ EmbedIds = StoreIds
        /\ LexSize = Len(index)

\* C2: a search returns at most top_k pairs, in non-increasing order of score,
\* on the hybrid path and on the semantic-only path.
C2_RankedAndCut ==
    Searched =>
        /\ Len(ret.result) <= ret.top_k
        /\ \A i \in 1..(Len(ret.result) - 1) :
               ret.result[i].score >= ret.result[i + 1].score

C2_Witness ==
    /\ OnHybridPath
    /\ Len(ret.combined) > ret.top_k
    /\ Len(ret.result) = 2
    /\ ret.result[1].score > ret.result[2].score

\* C3: on the hybrid path every chunk id of either side is ranked, with the
\* score (1 - alpha) * lexical + alpha * semantic, a missing side counting 0;
\* the pairs returned carry these scores.
C3_Blend ==
    OnHybridPath =>
        /\ DictKeys(ret.combined) = LexIds \cup ResultIdSet(ret.semantic)
        /\ \A i \in 1..Len(ret.combined) :
               ret.combined[i][2] =
                   ((10 - alpha) * LexOf(ret.combined[i][1])) \div 10
                       + (alpha * SemOf(ret.combined[i][1])) \div 10
        /\ \A i \in 1..Len(ret.result) :
               /\ DictHas(ret.combined, ret.result[i].doc.id)
               /\ ret.result[i].score = DictGet(ret.combined, ret.result[i].doc.id)

C3_Witness ==
    /\ OnHybridPath
    /\ 0 < alpha /\ alpha < 10
    /\ \E id \in LexIds \ ResultIdSet(ret.semantic) : LexOf(id) # 0
    /\ \E id \in ResultIdSet(ret.semantic) \ LexIds : SemOf(id) # 0
    /\ \E id \in LexIds \cap ResultIdSet(ret.semantic) : LexOf(id) # 0 /\ SemOf(id) # 0

\* C4: two chunks of a search result with equal blended score appear in the
\* order they were inserted into the store, after any sequence of
\* index_documents calls.
C4_TiesInInsertionOrder ==
    (Searched /\ indexed_only /\ DisjointIds) =>
        \A i, j \in 1..Len(ret.result) :
            (i < j /\ ret.result[i].score = ret.result[j].score)
                => Before(ret.result[i].doc.id, ret.result[j].doc.id)

\* C5: with alpha = 0 the result is in lexical order and semantic scores do not
\* order two chunks; with alpha = 1 it is in semantic order and, the candidates'
\* similarities being distinct, it is the ranking of the semantic-only search.
C5_PureOrders ==
    (OnHybridPath /\ indexed_only /\ DisjointIds) =>
        /\ alpha = 0 =>
               \A i, j \in 1..Len(ret.result) :
                   i < j =>
                       LET x == ret.result[i].doc.id
                           y == ret.result[j].doc.id
                       IN  /\ LexOf(x) >= LexOf(y)
                           /\ ~ /\ x \notin LexIds
                                /\ y \notin LexIds
                                /\ SemOf(x) > SemOf(y)
                                /\ Before(y, x)
        /\ alpha = 10 =>
               /\ \A i, j \in 1..Len(ret.result) :
                      i < j => SemOf(ret.result[i].doc.id) >= SemOf(ret.result[j].doc.id)
               /\ (\A i, j \in 1..Len(ret.semantic) :
                       i < j => ret.semantic[i].score # ret.semantic[j].score)
                      => ResultIds(ret.result)
                             = ResultIds(VSSearch(ret.query, ret.top_k, TRUE).result)

\* C6: set_alpha(a) with a outside [0,1] raises and keeps alpha; with a inside
\* it sets alpha to a; either way the indices and the store are left alone.
C6_SetAlpha ==
    [][ ret'.op = "set_alpha" =>
            /\ IF ret'.arg < 0 \/ ret'.arg > 10
               THEN ret'.raised /\ alpha' = alpha
               ELSE ~ret'.raised /\ alpha' = ret'.arg
            /\ UNCHANGED << bm25, doc_ids, documents, id_to_idx, index >> ]_vars

C6_Witness ==
    /\ ret.op = "set_alpha"
    /\ ret.raised
    /\ ret.arg = 15
    /\ alpha = 5
    /\ Len(index) > 0

\* C7: alpha lies in [0,1] in every reachable state.
C7_AlphaInRange == 0 <= alpha /\ alpha <= 10

\* C8: without a Lexical Index a search is the semantic-only search of the
\* store: same pairs, no blending, and no failure of its own.
C8_FallbackIsStoreSearch ==
    (ret.op = "search" /\ ~bm25.built) =>
        IF ret.raised
        THEN Len(index) > 0
        ELSE /\ ret.path = "semantic"
             /\ ret.combined = <<>>
             /\ ret.result = VSSearch(ret.query, ret.top_k, TRUE).result

C8_Witness ==
    /\ Searched
    /\ ~bm25.built
    /\ Len(ret.result) = 2
    /\ ret.result[1].score > ret.result[2].score

\* C9: a search with top_k above the number of chunks returns one pair per
\* chunk; a search on an empty corpus returns the empty sequence.
C9_WholeCorpus ==
    Searched =>
        /\ ret.top_k > Cardinality(StoreIds) =>
               /\ Len(ret.result) = Cardinality(StoreIds)
               /\ ResultIdSet(ret.result) = StoreIds
        /\ StoreIds = {} => ret.result = <<>>

\* C10: a search changes neither alpha, the Lexical Index, the document map,
\* the id-to-slot map nor the Embedding Index, and a search repeated with the
\* same query and top_k returns the same pairs.
C10_SearchIsPure ==
    [][ ret'.op = "search" =>
            /\ UNCHANGED << alpha, bm25, doc_ids, documents, id_to_idx, index >>
            /\ ( /\ Searched
                 /\ ~ret'.raised
                 /\ ret'.query = ret.query
                 /\ ret'.top_k = ret.top_k ) => ret'.result = ret.result ]_vars

C10_Witness ==
    /\ OnHybridPath
    /\ Len(doc_ids) = 2
    /\ doc_ids[1] < doc_ids[2]
    /\ Len(ret.result) = 2

\* the last call was add_documents, directly or through index_documents
Ingested(r) == r.op \in { "add_documents", "index_documents" }

\* C11: after clear() the Document Store holds no chunks, the id-to-slot map is
\* empty, the Embedding Index holds no vectors and the Lexical Index holds no
\* chunk ids.
C11_ClearResetsAll ==
    ret.op = "clear" =>
        /\ documents = <<>>
        /\ id_to_idx = <<>>
        /\ index = <<>>
        /\ doc_ids = <<>>

\* C12: across add_documents and clear calls the first slot a call assigns is
\* the number of slots assigned before it, so that slots grow, are never
\* reused, and slot i is the i-th chunk the store was ever given.
C12_SlotsNeverReused ==
    [][ Len(index') > Len(index) =>
            /\ Len(index) = inserted
            /\ Len(index') = inserted' ]_vars

\* C13: when add_documents or index_documents raises, the document map, the
\* id-to-slot map, the Embedding Index and the Lexical Index are as before
\* the call.
C13_NoPartialIngestion ==
    [][ (Ingested(ret') /\ ret'.raised) =>
            UNCHANGED << documents, id_to_idx, index, bm25, doc_ids >> ]_vars

\* C14: add_documents on a batch of n > 0 chunks makes exactly one
\* document-mode call to the embedding collaborator, with the n texts in batch
\* order (the text at position i is the one embedded and stored at the i-th
\* new slot); on an empty batch it makes no call and changes nothing.
C14_OneEmbedCallPerBatch ==
    [][ Ingested(ret') =>
            LET calls == ret'.embed_calls
                n == ret'.arg
                start_idx == Len(index)
            IN  /\ n = 0 =>
                       /\ calls = <<>>
                       /\ UNCHANGED << alpha, bm25, doc_ids, documents, id_to_idx, index >>
                /\ n > 0 =>
                       /\ Len(calls) = 1
                       /\ calls[1].input_type = "document"
                       /\ Len(calls[1].texts) = n
                       /\ Len(index') > start_idx =>
                              /\ Len(index') = start_idx + n
                              /\ \A i \in 1..n :
                                     /\ index'[start_idx + i] = Embed(calls[1].texts[i])
                                     /\ \A j \in 1..Len(id_to_idx') :
                                            id_to_idx'[j][2] = start_idx + i - 1 =>
                                                DictGet(documents', id_to_idx'[j][1]).content
                                                    = calls[1].texts[i] ]_vars

C14_Witness ==
    /\ ret.op = "add_documents"
    /\ ~ret.raised
    /\ ret.arg = 3
    /\ Len(ret.embed_calls) = 1
    /\ ret.embed_calls[1].texts = << <<"a", " ", "b">>, <<>>, <<"a">> >>
    /\ Len(id_to_idx) = 3

\* C15: after a completed save and a load into a fresh store with a fresh
\* retriever on top, get(id) returns the chunk it returned at the save for
\* every id, and every search returns the ranking it returned at the save
\* (checked where every vector of the index came with a chunk id of its own).
C15_RoundTrip ==
    (lifecycle = "restored" /\ DisjointIds) =>
        /\ documents = disk.pkl.documents
        /\ Searched =>
               ResultIds(ret.result) = ResultIds(disk.rankings[ret.query, ret.top_k])

\* C16: a load that succeeds leaves the document map, the id-to-slot map and
\* the vectors exactly as they were persisted, whatever the store held
\* before; get and search return persisted chunks only.
C16_LoadReplaces ==
    (ret.op = "load" /\ ~ret.raised) =>
        /\ documents = disk.pkl.documents
        /\ id_to_idx = disk.pkl.id_to_idx
        /\ index = disk.faiss.index
        /\ \A id \in Ids :
               HasDocument(id) =>
                   /\ DictHas(disk.pkl.documents, id)
                   /\ GetDocument(id) = DictGet(disk.pkl.documents, id)
        /\ \A q \in Queries, k \in TopKs :
               /\ ResultIdSet(VSSearch(q, k, TRUE).result) \subseteq DictKeys(disk.pkl.documents)
               /\ ResultIdSet(HSearch(q, k, TRUE).result) \subseteq DictKeys(disk.pkl.documents)

C16_Witness ==
    /\ ret.op = "load"
    /\ ~ret.raised
    /\ lifecycle = "used"
    /\ Len(documents) > 0
    /\ \E id \in LexIds : ~HasDocument(id)

\* C17: a load that fails leaves the store as it was: the vectors, the
\* document map and the id-to-slot map are restored together or not at all.
C17_LoadAllOrNothing ==
    [][ (ret'.op = "load" /\ ret'.raised) =>
            UNCHANGED << index, documents, id_to_idx >> ]_vars

\* C18: a query whose retrieval returns no chunk returns the canned answer
\* with no sources and confidence 0, makes no call to the text-generation
\* collaborator and leaves the history as it was.
C18_CannedOnEmpty ==
    [][ (ret'.op = "query" /\ ~ret'.raised /\ ret'.result = <<>>) =>
            /\ ret'.answer = Canned
            /\ ret'.sources = <<>>
            /\ ret'.confidence = 0
            /\ ret'.gen_calls = 0
            /\ history' = history ]_vars

C18_Witness ==
    /\ ret.op = "query"
    /\ ~ret.raised
    /\ ret.result = <<>>
    /\ ret.answer = Canned
    /\ Len(history) = 1

\* C19: a query whose call to the text-generation collaborator fails does
\* not raise: it returns an answer holding the error's description, no
\* sources and confidence 0, after exactly one call to the collaborator, and
\* leaves the history as it was.
C19_GenerationFailureCaught ==
    [][ (ret'.op = "query" /\ ret'.generation \in GenFailures) =>
            /\ ~ret'.raised
            /\ \E i \in 1..Len(ret'.answer) : ret'.answer[i] = ret'.generation
            /\ ret'.sources = <<>>
            /\ ret'.confidence = 0
            /\ ret'.gen_calls = 1
            /\ history' = history ]_vars

C19_Witness ==
    /\ ret.op = "query"
    /\ ret.generation = "quota"
    /\ Len(ret.result) = 2
    /\ ret.result[1].score > 0
    /\ Len(history) = 1

\* C20: QABot.query never raises: a failure of the embedding collaborator
\* during the retrieval, like one of the text-generation collaborator, ends
\* in an answer with confidence 0 and no sources.
C20_QueryNeverRaises ==
    ret.op = "query" =>
        /\ ~ret.raised
        /\ ret.generation \in GenFailures => (ret.confidence = 0 /\ ret.sources = <<>>)

\* C21: a query that obtained a generated answer reports as confidence the
\* score of the top-ranked retrieved chunk, which is the largest score
\* retrieved, and one source per retrieved chunk, in ranking order, with that
\* chunk's score as relevance.
C21_ConfidenceAndSources ==
    (ret.op = "query" /\ ret.generation = "answered") =>
        /\ ret.result # <<>>
        /\ ret.confidence = ret.result[1].score
        /\ \A i \in 1..Len(ret.result) : ret.confidence >= ret.result[i].score
        /\ Len(ret.sources) = Len(ret.result)
        /\ \A i \in 1..Len(ret.result) :
               /\ ret.sources[i].relevance = ret.result[i].score
               /\ ret.sources[i].preview = ret.result[i].doc.content

C21_Witness ==
    /\ ret.op = "query"
    /\ ret.generation = "answered"
    /\ bm25.built
    /\ Len(ret.result) = 2
    /\ ret.result[1].score > ret.result[2].score
    /\ ret.confidence = ret.result[1].score

\* C22: a query with the empty question returns the canned answer, no
\* sources and confidence 0 without a call to the text-generation
\* collaborator, whatever the index holds.
C22_EmptyQuestionIsCanned ==
    (ret.op = "query" /\ ~ret.raised /\ ret.query = <<>>) =>
        /\ ret.answer = Canned
        /\ ret.sources = <<>>
        /\ ret.confidence = 0
        /\ ret.gen_calls = 0

\* the store and the Lexical Index hold the corpus [CatChunk, DogChunk],
\* indexed in that order by one call
ScenarioIndexed ==
    /\ doc_ids = << 1, 2 >>
    /\ bm25.built
    /\ bm25.corpus = Tokenize(<< CatChunk, DogChunk >>)
    /\ Len(index) = 2
    /\ StoreIds = { 1, 2 }

\* C23: over that corpus search("cat mat") with alpha = 0 and top_k >= 2
\* returns the chunks in the order 1, 2, and chunk 1 comes first because its
\* lexical score, and so its blended score, is the larger one.
C23_CatMatScenario ==
    ( /\ ScenarioIndexed
      /\ OnHybridPath
      /\ alpha = 0
      /\ ret.query = << "cat", " ", "mat" >>
      /\ ret.top_k >= 2 ) =>
        /\ ResultIds(ret.result) = << 1, 2 >>
        /\ LexOf(1) > LexOf(2)
        /\ ret.result[1].score > ret.result[2].score

InUnit(x) == 0 <= x /\ x <= Unit

\* C24: with alpha in [0,1] every score a search returns lies in [0,1], and
\* so do the lexical and the semantic scores that enter the blend.
C24_ScoresInUnit ==
    (Searched /\ 0 <= alpha /\ alpha <= 10) =>
        /\ \A i \in 1..Len(ret.result) : InUnit(ret.result[i].score)
        /\ \A i \in 1..Len(ret.lexical) : InUnit(ret.lexical[i])
        /\ \A i \in 1..Len(ret.semantic) : InUnit(ret.semantic[i].score)

\* what C25 asks of one answer of VectorStore.search
StoreSearchAsked(r, q, top_k) ==
    /\ 1 <= Len(r) /\ Len(r) <= top_k
    /\ \A i \in 1..Len(r) :
           /\ HasDocument(r[i].doc.id)
           /\ GetDocument(r[i].doc.id) = r[i].doc
           /\ r[i].score = Similarity(L2sqr(r[i].doc.embedding, Embed(q)))
           /\ InUnit(r[i].score)
    /\ \A i \in 1..(Len(r) - 1) : r[i].score >= r[i + 1].score

\* C25: on a store that holds a chunk, VectorStore.search(query, top_k)
\* returns between one and top_k chunks of the store, nearest first, each
\* with the score 1 / (1 + distance), which lies in [0,1].
C25_StoreSearch ==
    Len(documents) >= 1 =>
        \A q \in Queries, k \in TopKs : StoreSearchAsked(VSSearch(q, k, TRUE).result, q, k)

\* C26: after any add_documents and clear calls the number of stored chunks
\* equals the number of vectors in the Embedding Index.
C26_CountsAgree == Len(documents) = Len(index)

\* C27: a search returns exactly top_k results whenever the Document Store
\* holds at least top_k chunks.
C27_FullResult ==
    (Searched /\ Len(documents) >= ret.top_k) => Len(ret.result) = ret.top_k

\* C28: when the Lexical Index holds chunk ids the Document Store no longer
\* holds, a search fails only with the embedding collaborator, every chunk
\* it returns is the one the store holds under that id, and no id is
\* returned twice.
C28_StaleIdsDropped ==
    (ret.op = "search" /\ LexIds \ StoreIds # {}) =>
        IF ret.raised
        THEN Len(index) > 0
        ELSE /\ \A i \in 1..Len(ret.result) :
                    /\ HasDocument(ret.result[i].doc.id)
                    /\ GetDocument(ret.result[i].doc.id) = ret.result[i].doc
             /\ \A i, j \in 1..Len(ret.result) :
                    ret.result[i].doc.id = ret.result[j].doc.id => i = j
             /\ ResultIdSet(ret.result) \cap (LexIds \ StoreIds) = {}

C28_Witness ==
    /\ OnHybridPath
    /\ LexIds \ StoreIds # {}
    /\ Len(ret.result) >= 1
    /\ \E i \in 1..ret.top_k : i <= Len(ret.combined)
           /\ SortedDesc(ret.combined)[i][1] \in LexIds \ StoreIds

\* C29: after any add_documents and clear calls, repeated ids included, the
\* document map and the id-to-slot map have the same keys, distinct ids have
\* distinct slots, every slot is below the number of vectors, and the vector
\* at a chunk's slot is the embedding stored on the chunk.
C29_MapsAgree ==
    /\ DictKeys(documents) = DictKeys(id_to_idx)
    /\ Len(documents) = Len(id_to_idx)
    /\ \A i, j \in 1..Len(id_to_idx) : id_to_idx[i][2] = id_to_idx[j][2] => i = j
    /\ \A i \in 1..Len(id_to_idx) :
           /\ 0 <= id_to_idx[i][2] /\ id_to_idx[i][2] < Len(index)
           /\ index[id_to_idx[i][2] + 1] = DictGet(documents, id_to_idx[i][1]).embedding

C29_Witness ==
    /\ Len(documents) = 2
    /\ Len(index) = 3
    /\ \E i \in 1..Len(id_to_idx) :
           /\ id_to_idx[i][2] = 2
           /\ index[1] # index[3]
           /\ \A j \in 1..Len(id_to_idx) : id_to_idx[j][2] # 0

\* C30: a query that obtained a generated answer appends its {question,
\* answer} to the history, after the entries already there; any other query
\* leaves the history as it is; clear_history empties it.
C30_History ==
    [][ /\ ret'.op = "query" =>
               history' = IF ret'.generation = "answered"
                          THEN Append(history, [question |-> ret'.query,
                                                answer |-> ret'.answer])
                          ELSE history
        /\ ret'.op = "clear_history" => history' = <<>>
        /\ ret'.op \notin { "query", "clear_history" } => history' = history ]_vars

C30_Witness ==
    /\ ret.op = "query"
    /\ ret.generation = "answered"
    /\ Len(history) = 2
    /\ history[1].question = <<>>
    /\ history[2].question = << "a" >>
    /\ history[2].answer = ret.answer

====
